---- MODULE Spec2Model ----
(***************************************************************************)
(* The variable store of package nn (VarStore / Variables / Path / Entry)  *)
(* together with the C tensor handles it stores.                           *)
(*                                                                         *)
(* A tensor handle (ts.Tensor, a C pointer to a torch::Tensor) is a        *)
(* positive number; heap[h] is the storage the handle refers to.  A        *)
(* shallow clone is a new handle on the same storage.  The values and the  *)
(* requires-grad flag belong to the storage.  Only the handles that the    *)
(* registries, the calls in progress and the last results of the threads   *)
(* refer to are kept: a handle nothing refers to cannot be used again.     *)
(*                                                                         *)
(* Names are sequences of one-character strings, so that the separator     *)
(* test of getpath and the "%v__%v" formatting of add are computed.        *)
(*                                                                         *)
(* A method that holds the mutex from its first statement to its return    *)
(* is two steps: taking the mutex, and the body together with the deferred *)
(* Unlock.  getOrAddWithLock takes no mutex: its lookup and its insert are *)
(* separate steps.                                                         *)
(*                                                                         *)
(* The path of a Path is a Go slice: a backing array, a length and a       *)
(* capacity.  Sub copies the slice header and appends to the copy, so      *)
(* paths may share a backing array.                                        *)
(*                                                                         *)
(* The trainable variables of a store are a Go slice of handles as well:   *)
(* trainableSlice[s] is its header, TrainableVariables[s] the elements it  *)
(* covers.  TrainableVariables() appends to a copy of that header, and its *)
(* result is a header too.  Only the arrays that a header refers to are    *)
(* kept.                                                                   *)
(*                                                                         *)
(* Where the C binding has undefined behaviour (the names array of         *)
(* AtSaveMulti, a copy through a nil tensor), the call takes one of the    *)
(* outcomes an execution can have.                                         *)
(***************************************************************************)
EXTENDS Integers, Sequences, FiniteSets, TLC

VARIABLES
    heap,               \* heap[h]: the storage of the live handle h
    data,               \* data[st]: the values held by storage st
    requiresGrad,       \* requiresGrad[st]: gradient tracking of storage st
    mutex,              \* mutex[s]: the thread holding vs.Vars.mutex of store s
    NamedVariables,     \* NamedVariables[s]: map name -> handle
    TrainableVariables, \* TrainableVariables[s]: slice of handles
    pc,                 \* pc[t]: where thread t is
    frame,              \* frame[t]: arguments and locals of thread t's call
    ret,                \* ret[t]: what thread t's last call returned
    crashed,            \* the process was terminated (log.Fatalf, or a fault)
    registeredTrainable, \* history: the live handles stored with trainable = true
    arrays,             \* arrays[a]: the backing array a of the path slices
    paths,              \* paths[i]: the i-th Path made: its path slice, and as
                        \* history the elements it was returned with
    everCreated,        \* history: the stores in which a variable was created
    tensorArrays,       \* tensorArrays[a]: the backing array a of tensor slices
    trainableSlice      \* trainableSlice[s]: the slice header (array, length,
                        \* capacity) of TrainableVariables[s]

vars == <<heap, data, requiresGrad, mutex, NamedVariables, TrainableVariables,
          pc, frame, ret, crashed, registeredTrainable, arrays, paths,
          everCreated, tensorArrays, trainableSlice>>

----------------------------------------------------------------------------
\* Bounds of the model.

\* Variables the two registries may hold together when one thread runs.
MaxVars == 3

\* The same when two threads run, and when one thread freezes and unfreezes.
MaxConcVars == 2
\* The number of elements a caller writes to a slice it got.
MaxWrites == 1

\* Longest file (sequence of named tensors) given to Load / LoadPartial.
MaxFileLen == 2

\* Paths there may be, the root path included.
MaxPaths == 6

----------------------------------------------------------------------------
\* Constants of the program and the inputs that are enumerated.

SEP == "."

\* The zero value of ts.Tensor: a nil C pointer.
NilH == 0

\* An unlocked sync.Mutex.
NoThread == 0

Threads == {1, 2}
Stores == {"A", "B"}

NameW == <<"w">>
NameW2 == <<"w", "_", "_", "2">>
NameB == <<"b">>

\* Names given to the creation and get-or-create methods.
VarNames == {NameW, NameW2}

\* Names with the separator.
SepNames == {<<"w", ".">>}

\* Names that occur in files.
FileNames == {NameW, NameB}

\* Strings given to Sub; the last one contains the separator.
Segments == {<<"a">>, <<"b">>, <<"a", ".">>}

NameC == <<"c">>

\* Names given to Get: w, and the key of the variable w of the scope a.
GetNames == {NameW, <<"a", ".", "w">>}

\* Names given to getpath; the last one contains the separator.
QualNames == {NameC, <<"c", ".">>}

\* The values of ts.Zeros and ts.Ones.
ZeroVal == 0
OneVal == 1

\* Initialisers given to NewVar and OrVar: ConstInit(0.0) (Zeros, OrZeros).
InitVals == {ZeroVal}

\* The value every tensor of a file holds: one no initialiser produces.
FileVal == OneVal + 1

----------------------------------------------------------------------------
\* Strings.

DigitChar == <<"0", "1", "2", "3", "4", "5", "6", "7", "8", "9">>

\* fmt's %v of a non-negative int.
RECURSIVE Digits(_)
Digits(n) == IF n < 10 THEN <<DigitChar[n + 1]>>
             ELSE Digits(n \div 10) \o <<DigitChar[(n % 10) + 1]>>

\* strings.Contains(name, SEP)
ContainsSEP(name) == \E i \in DOMAIN name : name[i] = SEP

\* strings.Join(path, SEP)
RECURSIVE Join(_)
Join(path) == IF path = << >> THEN << >>
              ELSE IF Len(path) = 1 THEN path[1]
              ELSE path[1] \o <<SEP>> \o Join(Tail(path))

\* Path.getpath, for a name without the separator.
getpath(path, name) == IF Len(path) = 0 THEN name
                       ELSE Join(path) \o <<SEP>> \o name

----------------------------------------------------------------------------
\* Maps, tensor handles and storages.

Range(f) == {f[x] : x \in DOMAIN f}

\* A map with one key written: m[k] = h of Go.
MapPut(m, k, h) == [x \in (DOMAIN m) \cup {k} |-> IF x = k THEN h ELSE m[x]]

EmptyMap == [x \in {} |-> NilH]

Restrict(f, S) == [x \in (DOMAIN f) \cap S |-> f[x]]

\* The keys of a map in the order one iteration visits them.
RECURSIVE KeySeq(_)
KeySeq(ks) == IF ks = {} THEN << >>
              ELSE LET k == CHOOSE x \in ks : TRUE
                   IN <<k>> \o KeySeq(ks \ {k})

\* An address no live object of the map f has.
Fresh(f) == CHOOSE n \in 1..(Cardinality(DOMAIN f) + 1) : n \notin DOMAIN f

\* A new tensor: a new handle on a new storage.  [heap, data, requiresGrad, h]
NewTensor(hp, d, g, v) ==
    LET h == Fresh(hp)
        st == Fresh(d)
    IN [heap |-> MapPut(hp, h, st), data |-> MapPut(d, st, v),
        requiresGrad |-> MapPut(g, st, FALSE), h |-> h]

\* Tensor.MustShallowClone (at_shallow_clone): a new handle on the storage of h.
ShallowClone(hp, h) ==
    LET c == Fresh(hp) IN [heap |-> MapPut(hp, c, hp[h]), h |-> c]

\* ts.Copy_(dst, src) (at_copy_): the values v of src are written into the
\* storage of dst.
Copy_(hp, d, dst, v) == [d EXCEPT ![hp[dst]] = v]

\* Tensor.SetRequiresGrad(b): the flag of the storage is set; the handle it
\* returns is taken to be the receiver.
SetRequiresGrad(hp, g, h, b) == [g EXCEPT ![hp[h]] = b]

NoFrame == [op |-> "none", store |-> "A", src |-> "A", path |-> << >>, name |-> << >>,
            key |-> << >>, newTs |-> NilH, val |-> ZeroVal, trainable |-> FALSE,
            file |-> << >>, ub |-> "none", after |-> "none", scope |-> 0,
            tensor |-> NilH, saved |-> EmptyMap]

NoRet == [op |-> "none", store |-> "A", key |-> << >>, err |-> FALSE, h |-> NilH,
          hs |-> << >>, m |-> EmptyMap, missing |-> << >>, after |-> "none",
          scope |-> 0, name |-> << >>, file |-> << >>, len |-> 0,
          empty |-> FALSE, arg |-> NilH, created |-> FALSE, path |-> << >>,
          slice |-> [arr |-> 0, len |-> 0, cap |-> 0], saved |-> EmptyMap]

\* The handles a result holds.
RetHandles(r) == ({r.h, r.arg} \cup Range(r.hs) \cup Range(r.m)) \ {NilH}

\* The handles the registry of store s holds.
RegistryHandles(nv, tv, s) == Range(nv[s]) \cup Range(tv[s])

\* Every handle something refers to.
Live(nv, tv, rt, fr) ==
    UNION {RegistryHandles(nv, tv, s) : s \in Stores}
    \cup UNION {RetHandles(rt[t]) : t \in Threads}
    \cup (({fr[t].newTs : t \in Threads} \cup {fr[t].tensor : t \in Threads})
          \ {NilH})

\* The handles that the step stores in a registry with trainable = true: the
\* tensor that add or getOrAddWithLock returns when it was called so.
StoredTrainable ==
    {ret'[t].h : t \in {u \in Threads : /\ pc[u] \in {"add", "getOrAddWithLock"}
                                       /\ pc'[u] # pc[u]
                                       /\ frame[u].trainable}}

\* The stores in which the step creates a variable: add or getOrAddWithLock
\* writes the map and returns.
StoredIn ==
    {frame[t].store : t \in {u \in Threads : /\ pc[u] \in {"add", "getOrAddWithLock"}
                                             /\ pc'[u] # pc[u]}}

\* The slices of tensors there are: those of the stores and the ones that the
\* last calls of the threads returned.
TensorSlices(ts, rt) == {ts[s] : s \in Stores} \cup {rt[t].slice : t \in Threads}

\* The backing arrays that a slice of hdrs refers to, each with the elements
\* that such a slice covers (an element past the length of every slice is
\* written by append before it is read).
Covered(arrs, hdrs) ==
    [a \in (DOMAIN arrs) \cap {h.arr : h \in hdrs} |->
        [i \in DOMAIN arrs[a] |->
            IF \E h \in hdrs : h.arr = a /\ i <= h.len THEN arrs[a][i] ELSE NilH]]

\* The tensors and the arrays of tensors after a step: what the step made of
\* them, less what nothing refers to any more.  It is the last conjunct of
\* every action, and it keeps the history of the handles stored as trainable
\* and of the stores in which a variable was created.
TensorsAndArrays(hp, d, g, arrs) ==
    LET live == Live(NamedVariables', TrainableVariables', ret', frame')
        hp2 == Restrict(hp, live)
    IN /\ heap' = hp2
       /\ data' = Restrict(d, Range(hp2))
       /\ requiresGrad' = Restrict(g, Range(hp2))
       /\ registeredTrainable' = (registeredTrainable \cup StoredTrainable) \cap live
       /\ everCreated' = everCreated \cup StoredIn
       /\ tensorArrays' = Covered(arrs, TensorSlices(trainableSlice', ret'))

\* The same for a step that writes no array of tensors.
Tensors(hp, d, g) == TensorsAndArrays(hp, d, g, tensorArrays)

\* A slice of strings: the backing array (0: none), the length, the capacity.
Slice(a, n, c) == [arr |-> a, len |-> n, cap |-> c]

\* VarStore.Root: the path is []string{}.
Root == [path |-> Slice(0, 0, 0), made |-> << >>]

\* The elements of the slice sl.
Elems(arrs, sl) == [i \in 1..sl.len |-> arrs[sl.arr][i]]

\* The capacity append gives the new array of a slice of capacity c that is
\* full: one for an empty slice, then the double.
growCap(c) == IF c = 0 THEN 1 ELSE 2 * c

\* append(sl, str): [arrays, slice].  With room left the string is written
\* into the array of sl after its last element; otherwise the elements are
\* copied into a new array.
append(arrs, sl, str) ==
    IF sl.len < sl.cap
    THEN [arrays |-> [arrs EXCEPT ![sl.arr][sl.len + 1] = str],
          slice |-> Slice(sl.arr, sl.len + 1, sl.cap)]
    ELSE LET a == Len(arrs) + 1
             c == growCap(sl.cap)
         IN [arrays |-> Append(arrs, [i \in 1..c |->
                                      IF i <= sl.len THEN arrs[sl.arr][i]
                                      ELSE IF i = sl.len + 1 THEN str
                                      ELSE << >>]),
             slice |-> Slice(a, sl.len + 1, c)]

\* append(sl, x) on a slice of tensors: [arrays, slice], as for strings.
appendTensor(arrs, sl, x) ==
    IF sl.len < sl.cap
    THEN [arrays |-> [arrs EXCEPT ![sl.arr][sl.len + 1] = x],
          slice |-> Slice(sl.arr, sl.len + 1, sl.cap)]
    ELSE LET a == Fresh(arrs)
             c == growCap(sl.cap)
         IN [arrays |-> MapPut(arrs, a, [i \in 1..c |->
                                         IF i <= sl.len THEN arrs[sl.arr][i]
                                         ELSE IF i = sl.len + 1 THEN x
                                         ELSE NilH]),
             slice |-> Slice(a, sl.len + 1, c)]

\* x is appended for every element of hs in turn: [arrays, slice].
RECURSIVE appendAll(_, _, _)
appendAll(arrs, sl, hs) ==
    IF hs = << >> THEN [arrays |-> arrs, slice |-> sl]
    ELSE LET r == appendTensor(arrs, sl, Head(hs))
         IN appendAll(r.arrays, r.slice, Tail(hs))

\* The paths the methods are called on: the segments of the paths there are
\* (the root path alone when Sub is not called).
Paths == {Elems(arrays, paths[i].path) : i \in DOMAIN paths}

Init ==
    /\ heap = EmptyMap
    /\ data = EmptyMap
    /\ requiresGrad = EmptyMap
    /\ mutex = [s \in Stores |-> NoThread]
    /\ NamedVariables = [s \in Stores |-> EmptyMap]
    /\ TrainableVariables = [s \in Stores |-> << >>]
    /\ pc = [t \in Threads |-> "idle"]
    /\ frame = [t \in Threads |-> NoFrame]
    /\ ret = [t \in Threads |-> NoRet]
    /\ crashed = FALSE
    /\ registeredTrainable = {}
    /\ arrays = << >>
    /\ paths = <<Root>>
    /\ everCreated = {}
    /\ tensorArrays = [a \in {} |-> << >>]
    /\ trainableSlice = [s \in Stores |-> Slice(0, 0, 0)]

Idle(t) == ~crashed /\ pc[t] = "idle"

At(t, label) == ~crashed /\ pc[t] = label

\* mutex.Lock() by t on store s returns.
Lock(t, s) == mutex[s] = NoThread

\* The tensors the registries hold and the creations in progress.
Population ==
    Cardinality(UNION {RegistryHandles(NamedVariables, TrainableVariables, s) :
                       s \in Stores})
    + Cardinality({t \in Threads : pc[t] \in {"add", "OrVar", "getOrAddWithLock",
                                               "OrZerosNoTrain", "OrOnesNoTrain"}})

\* A call begins: the caller lets go of its last result.
Begin(t, f, label) ==
    /\ pc' = [pc EXCEPT ![t] = label]
    /\ frame' = [frame EXCEPT ![t] = f]
    /\ ret' = [ret EXCEPT ![t] = NoRet]

\* A call returns r.
Return(t, r) ==
    /\ pc' = [pc EXCEPT ![t] = "idle"]
    /\ frame' = [frame EXCEPT ![t] = NoFrame]
    /\ ret' = [ret EXCEPT ![t] = r]

\* add or getOrAddWithLock returns r.  Inside VarCopy and OrVarCopy, which
\* hold the tensor to copy from, r is the local v and the copy follows.
Registered(t, r) ==
    IF frame[t].tensor = NilH
    THEN Return(t, r)
    ELSE /\ pc' = [pc EXCEPT ![t] = frame[t].op]
         /\ frame' = [frame EXCEPT ![t] = [@ EXCEPT !.newTs = NilH]]
         /\ ret' = [ret EXCEPT ![t] = r]

\* The process is terminated.
Die == /\ crashed' = TRUE
       /\ UNCHANGED <<pc, frame, ret>>

----------------------------------------------------------------------------
\* Path.Sub and Path.getpath.

\* Sub on the i-th path there is: the path slice is copied, str is appended to
\* the copy, and a Path with it is returned.  A string with SEP ends the process.
Sub(t, b) ==
    /\ Idle(t)
    /\ Len(paths) < b
    /\ \E i \in DOMAIN paths, str \in Segments :
        IF ContainsSEP(str)
        THEN /\ crashed' = TRUE
             /\ UNCHANGED <<arrays, paths>>
        ELSE LET path == append(arrays, paths[i].path, str)
             IN /\ arrays' = path.arrays
                /\ paths' = Append(paths, [path |-> path.slice,
                                           made |-> Elems(path.arrays, path.slice)])
                /\ UNCHANGED crashed
    /\ UNCHANGED <<heap, data, requiresGrad, mutex, NamedVariables,
                   TrainableVariables, pc, frame, ret, registeredTrainable,
                   everCreated, tensorArrays, trainableSlice>>

\* A call of getpath on the i-th path there is.
CallGetpath(t) ==
    /\ Idle(t)
    /\ \E i \in DOMAIN paths, name \in QualNames :
        Begin(t, [NoFrame EXCEPT !.op = "getpath", !.scope = i, !.name = name],
              "getpath")
    /\ UNCHANGED <<mutex, NamedVariables, TrainableVariables, crashed>>
    /\ UNCHANGED <<arrays, paths, trainableSlice>>
    /\ Tensors(heap, data, requiresGrad)

\* getpath on the path as it is now; a name with SEP ends the process.
getpathBody(t) ==
    /\ At(t, "getpath")
    /\ LET f == frame[t]
       IN IF ContainsSEP(f.name)
          THEN Die
          ELSE /\ Return(t, [NoRet EXCEPT !.op = "getpath", !.scope = f.scope,
                                          !.name = f.name,
                                          !.key = getpath(Elems(arrays, paths[f.scope].path),
                                                          f.name)])
               /\ UNCHANGED crashed
    /\ UNCHANGED <<mutex, NamedVariables, TrainableVariables>>
    /\ UNCHANGED <<arrays, paths, trainableSlice>>
    /\ Tensors(heap, data, requiresGrad)

----------------------------------------------------------------------------
\* Path.add and the creation methods that call it.

\* The key with the number of variables there will be after the insert.
addKeyCountingNew(nv, path) ==
    IF path \in DOMAIN nv
    THEN path \o <<"_", "_">> \o Digits(Cardinality(DOMAIN nv) + 1)
    ELSE path

\* The key with the suffix whether the path is taken or not.
addKeySuffixed(nv, path) ==
    path \o <<"_", "_">> \o Digits(Cardinality(DOMAIN nv))

\* The key add writes: the path, or path__<len(NamedVariables)> when taken.
addKey(nv, path) ==
    IF path \in DOMAIN nv
    THEN path \o <<"_", "_">> \o Digits(Cardinality(DOMAIN nv))
    ELSE path

\* A creation method: the initial tensor is built, then p.add runs up to and
\* including mutex.Lock().  getpath ends the process on a name with SEP.
CallAdd(t, b, op, s, p, name, v, trainable) ==
    /\ Idle(t)
    /\ Population < b
    /\ LET new == NewTensor(heap, data, requiresGrad, v)
       IN /\ IF ContainsSEP(name)
             THEN Die /\ UNCHANGED mutex
             ELSE /\ Lock(t, s)
                  /\ mutex' = [mutex EXCEPT ![s] = t]
                  /\ Begin(t, [NoFrame EXCEPT !.op = op, !.store = s, !.path = p,
                                              !.name = name, !.key = getpath(p, name),
                                              !.newTs = new.h, !.val = v,
                                              !.trainable = trainable], "add")
                  /\ UNCHANGED crashed
          /\ UNCHANGED <<NamedVariables, TrainableVariables>>
          /\ UNCHANGED <<arrays, paths, trainableSlice>>
          /\ Tensors(new.heap, new.data, new.requiresGrad)

ZerosNoTrain(t, b) ==
    \E s \in Stores, p \in Paths, name \in VarNames :
        CallAdd(t, b, "ZerosNoTrain", s, p, name, ZeroVal, FALSE)

OnesNoTrain(t, b) ==
    \E s \in Stores, p \in Paths, name \in VarNames :
        CallAdd(t, b, "OnesNoTrain", s, p, name, OneVal, FALSE)

\* Ones (NewVar with ConstInit(1.0)), on any name.
Ones(t, b) ==
    \E s \in Stores, p \in Paths, name \in VarNames \cup SepNames :
        CallAdd(t, b, "Ones", s, p, name, OneVal, TRUE)

\* NewVar with a constant initialiser (Zeros).
NewVar(t, b) ==
    \E s \in Stores, p \in Paths, name \in VarNames, v \in InitVals :
        CallAdd(t, b, "NewVar", s, p, name, v, TRUE)

\* The tensor a caller gives to VarCopy or OrVarCopy: [heap, data,
\* requiresGrad, h].  It is the tensor its last call returned (held), or a new
\* tensor of ones.
Args(t) == {"new"} \cup (IF ret[t].h # NilH THEN {"held"} ELSE {})

ArgTensor(t, a) ==
    IF a = "held"
    THEN [heap |-> heap, data |-> data, requiresGrad |-> requiresGrad, h |-> ret[t].h]
    ELSE NewTensor(heap, data, requiresGrad, OneVal)

\* VarCopy up to and including the mutex.Lock() of add: p.Zeros(name, size)
\* builds the tensor of zeros and calls add with trainable = true.
CallVarCopy(t, b, s, p, name, a) ==
    /\ Idle(t)
    /\ Population < b
    /\ LET arg == ArgTensor(t, a)
           new == NewTensor(arg.heap, arg.data, arg.requiresGrad, ZeroVal)
       IN /\ IF ContainsSEP(name)
             THEN Die /\ UNCHANGED mutex
             ELSE /\ Lock(t, s)
                  /\ mutex' = [mutex EXCEPT ![s] = t]
                  /\ Begin(t, [NoFrame EXCEPT !.op = "VarCopy", !.store = s,
                                              !.path = p, !.name = name,
                                              !.key = getpath(p, name),
                                              !.newTs = new.h, !.val = ZeroVal,
                                              !.trainable = TRUE, !.tensor = arg.h],
                           "add")
                  /\ UNCHANGED crashed
          /\ UNCHANGED <<NamedVariables, TrainableVariables>>
          /\ UNCHANGED <<arrays, paths, trainableSlice>>
          /\ Tensors(new.heap, new.data, new.requiresGrad)

VarCopy(t, b) ==
    \E s \in Stores, p \in Paths, name \in VarNames, a \in Args(t) :
        CallVarCopy(t, b, s, p, name, a)

\* VarCopy after Zeros returned v: ts.Copy_(v, t) under NoGrad, and v is
\* returned.  The caller keeps its tensor.
VarCopyBody(t) ==
    /\ At(t, "VarCopy")
    /\ LET f == frame[t]
           v == ret[t].h
       IN /\ Return(t, [ret[t] EXCEPT !.op = "VarCopy", !.arg = f.tensor])
          /\ UNCHANGED <<mutex, NamedVariables, TrainableVariables, crashed>>
          /\ UNCHANGED <<arrays, paths, trainableSlice>>
          /\ Tensors(heap, Copy_(heap, data, v, data[heap[f.tensor]]), requiresGrad)

\* The body of add under the mutex, and the deferred Unlock.
add(t) ==
    /\ At(t, "add")
    /\ LET f == frame[t]
           s == f.store
           nv == NamedVariables[s]
           key == addKey(nv, f.key)
           cl == ShallowClone(heap, f.newTs)
           tensor == cl.h
       IN /\ TrainableVariables' =
                 IF f.trainable
                 THEN [TrainableVariables EXCEPT ![s] = Append(@, tensor)]
                 ELSE TrainableVariables
          /\ NamedVariables' = [NamedVariables EXCEPT ![s] = MapPut(nv, key, tensor)]
          /\ mutex' = [mutex EXCEPT ![s] = NoThread]
          /\ Registered(t, [NoRet EXCEPT !.op = f.op, !.store = s, !.key = key,
                                         !.h = tensor, !.created = TRUE])
          /\ UNCHANGED crashed
          /\ UNCHANGED <<arrays, paths>>
          /\ LET ap == IF f.trainable
                       THEN appendTensor(tensorArrays, trainableSlice[s], tensor)
                       ELSE [arrays |-> tensorArrays, slice |-> trainableSlice[s]]
             IN /\ trainableSlice' = [trainableSlice EXCEPT ![s] = ap.slice]
                /\ TensorsAndArrays(cl.heap, data,
                                    IF f.trainable
                                    THEN SetRequiresGrad(cl.heap, requiresGrad, tensor,
                                                         TRUE)
                                    ELSE requiresGrad,
                                    ap.arrays)

----------------------------------------------------------------------------
\* Path.Entry, Entry.OrVar and Path.getOrAddWithLock.

\* Another thread is inside an access to the registry of store s.
Racing(t, s) ==
    \E u \in Threads \ {t} :
        \/ pc[u] = "getOrAddWithLock" /\ frame[u].store = s
        \/ mutex[s] = u /\ pc[u] \notin {"idle", "OrVar", "CopyLockSrc"}
        \/ pc[u] = "Copy" /\ frame[u].src = s

\* Path.Entry: the mutex is taken and released; the entry names the variables.
CallEntry(t, b, s, p, name, v) ==
    /\ Idle(t)
    /\ Population < b
    /\ Lock(t, s)
    /\ Begin(t, [NoFrame EXCEPT !.op = "OrVar", !.store = s, !.path = p,
                                !.name = name, !.val = v, !.trainable = TRUE],
             "OrVar")
    /\ UNCHANGED <<mutex, NamedVariables, TrainableVariables, crashed>>
    /\ UNCHANGED <<arrays, paths, trainableSlice>>
    /\ Tensors(heap, data, requiresGrad)

\* Entry for the OrVar that follows, with a constant initialiser (OrZeros).
Entry(t, b) ==
    \E s \in Stores, p \in Paths, name \in VarNames, v \in InitVals :
        CallEntry(t, b, s, p, name, v)

\* Entry for the OrOnes that follows, on any name.
EntryOrOnes(t, b) ==
    \E s \in Stores, p \in Paths, name \in VarNames \cup SepNames :
        CallEntry(t, b, s, p, name, OneVal)

\* Entry.OrVar without the lookup: the name is taken to be absent.
OrVarNoLookup(t) ==
    /\ At(t, "OrVar")
    /\ LET f == frame[t]
           new == NewTensor(heap, data, requiresGrad, f.val)
       IN /\ pc' = [pc EXCEPT ![t] = "getOrAddWithLock"]
          /\ frame' = [frame EXCEPT ![t] = [f EXCEPT !.key = getpath(f.path, f.name),
                                                    !.newTs = new.h]]
          /\ UNCHANGED <<ret, crashed, mutex, NamedVariables, TrainableVariables>>
          /\ UNCHANGED <<arrays, paths, trainableSlice>>
          /\ Tensors(new.heap, new.data, new.requiresGrad)

\* Entry.OrVar up to the lookup of getOrAddWithLock; no mutex is held.
OrVar(t) ==
    /\ At(t, "OrVar")
    /\ LET f == frame[t]
           s == f.store
           new == NewTensor(heap, data, requiresGrad, f.val)
           path == getpath(f.path, f.name)
       IN /\ IF ContainsSEP(f.name)
             THEN Die
             ELSE IF path \in DOMAIN NamedVariables[s]
             THEN /\ Registered(t, [NoRet EXCEPT !.op = "OrVar", !.store = s,
                                                 !.key = path,
                                                 !.h = NamedVariables[s][path]])
                  /\ UNCHANGED crashed
             ELSE /\ pc' = [pc EXCEPT ![t] = "getOrAddWithLock"]
                  /\ frame' = [frame EXCEPT ![t] = [f EXCEPT !.key = path,
                                                            !.newTs = new.h]]
                  /\ UNCHANGED <<ret, crashed>>
          /\ UNCHANGED <<mutex, NamedVariables, TrainableVariables>>
          /\ UNCHANGED <<arrays, paths, trainableSlice>>
          /\ Tensors(new.heap, new.data, new.requiresGrad)

\* Path.Entry for the OrZerosNoTrain or OrOnesNoTrain that follows.
EntryNoTrain(t, b) ==
    /\ Idle(t)
    /\ Population < b
    /\ \E s \in Stores, p \in Paths, name \in VarNames,
          op \in {"OrZerosNoTrain", "OrOnesNoTrain"} :
        /\ Lock(t, s)
        /\ Begin(t, [NoFrame EXCEPT !.op = op, !.store = s, !.path = p,
                                    !.name = name], op)
    /\ UNCHANGED <<mutex, NamedVariables, TrainableVariables, crashed>>
    /\ UNCHANGED <<arrays, paths, trainableSlice>>
    /\ Tensors(heap, data, requiresGrad)

\* An Entry method that builds a tensor of v and calls getOrAddWithLock with
\* it and trainable, up to the lookup; no mutex is held.
CallGetOrAdd(t, v, trainable) ==
    LET f == frame[t]
        s == f.store
        new == NewTensor(heap, data, requiresGrad, v)
        path == getpath(f.path, f.name)
    IN /\ IF ContainsSEP(f.name)
          THEN Die
          ELSE IF path \in DOMAIN NamedVariables[s]
          THEN /\ Registered(t, [NoRet EXCEPT !.op = f.op, !.store = s, !.key = path,
                                              !.h = NamedVariables[s][path]])
               /\ UNCHANGED crashed
          ELSE /\ pc' = [pc EXCEPT ![t] = "getOrAddWithLock"]
               /\ frame' = [frame EXCEPT ![t] = [f EXCEPT !.key = path,
                                                         !.newTs = new.h,
                                                         !.val = v,
                                                         !.trainable = trainable]]
               /\ UNCHANGED <<ret, crashed>>
       /\ UNCHANGED <<mutex, NamedVariables, TrainableVariables>>
       /\ UNCHANGED <<arrays, paths, trainableSlice>>
       /\ Tensors(new.heap, new.data, new.requiresGrad)

\* OrZerosNoTrain that passes trainable = false.
OrZerosNoTrainUntracked(t) ==
    /\ At(t, "OrZerosNoTrain")
    /\ CallGetOrAdd(t, ZeroVal, FALSE)

\* Entry.OrZerosNoTrain: ts.MustZeros, then getOrAddWithLock(e.name, z, true, ..).
OrZerosNoTrain(t) ==
    /\ At(t, "OrZerosNoTrain")
    /\ CallGetOrAdd(t, ZeroVal, TRUE)

\* Entry.OrOnesNoTrain: ts.MustOnes, then getOrAddWithLock(e.name, o, true, ..).
OrOnesNoTrain(t) ==
    /\ At(t, "OrOnesNoTrain")
    /\ CallGetOrAdd(t, OneVal, TRUE)

\* Path.Entry for the OrVarCopy that follows, and OrVarCopy up to its call of
\* OrZeros.
EntryOrVarCopy(t, b) ==
    /\ Idle(t)
    /\ Population < b
    /\ \E s \in Stores, p \in Paths, name \in VarNames, a \in Args(t) :
        LET arg == ArgTensor(t, a)
        IN /\ Lock(t, s)
           /\ Begin(t, [NoFrame EXCEPT !.op = "OrVarCopy", !.store = s, !.path = p,
                                       !.name = name, !.val = ZeroVal,
                                       !.trainable = TRUE, !.tensor = arg.h],
                    "OrVar")
           /\ UNCHANGED <<mutex, NamedVariables, TrainableVariables, crashed>>
           /\ UNCHANGED <<arrays, paths, trainableSlice>>
           /\ Tensors(arg.heap, arg.data, arg.requiresGrad)

\* OrVarCopy that leaves a variable that was there as it is.
OrVarCopyBodyNewOnly(t) ==
    /\ At(t, "OrVarCopy")
    /\ LET f == frame[t]
           v == ret[t].h
       IN /\ Return(t, [ret[t] EXCEPT !.op = "OrVarCopy", !.arg = f.tensor])
          /\ UNCHANGED <<mutex, NamedVariables, TrainableVariables, crashed>>
          /\ UNCHANGED <<arrays, paths, trainableSlice>>
          /\ Tensors(heap,
                     IF ret[t].created
                     THEN Copy_(heap, data, v, data[heap[f.tensor]])
                     ELSE data,
                     requiresGrad)

\* OrVarCopy after OrZeros returned v: ts.Copy_(v, tensor) under NoGrad, and
\* v is returned.  The caller keeps its tensor.
OrVarCopyBody(t) ==
    /\ At(t, "OrVarCopy")
    /\ LET f == frame[t]
           v == ret[t].h
       IN /\ Return(t, [ret[t] EXCEPT !.op = "OrVarCopy", !.arg = f.tensor])
          /\ UNCHANGED <<mutex, NamedVariables, TrainableVariables, crashed>>
          /\ UNCHANGED <<arrays, paths, trainableSlice>>
          /\ Tensors(heap, Copy_(heap, data, v, data[heap[f.tensor]]), requiresGrad)

\* getOrAddWithLock after the lookup missed.  The append goes to the slice
\* header of the by-value copy of Variables, so vs.Vars.TrainableVariables keeps
\* its length; the map is shared.  An unsynchronised map write that overlaps
\* another access may also end the process.
getOrAddWithLock(t) ==
    /\ At(t, "getOrAddWithLock")
    /\ LET f == frame[t]
           s == f.store
           ttensor == f.newTs
       IN /\ NamedVariables' =
                 [NamedVariables EXCEPT ![s] = MapPut(@, f.key, ttensor)]
          /\ Registered(t, [NoRet EXCEPT !.op = f.op, !.store = s, !.key = f.key,
                                         !.h = ttensor, !.created = TRUE])
          /\ crashed' \in (IF Racing(t, s) THEN {FALSE, TRUE} ELSE {FALSE})
          /\ UNCHANGED <<mutex, TrainableVariables, trainableSlice>>
          /\ UNCHANGED <<arrays, paths>>
          /\ TensorsAndArrays(heap, data,
                              IF f.trainable
                              THEN SetRequiresGrad(heap, requiresGrad, f.newTs, TRUE)
                              ELSE requiresGrad,
                              IF f.trainable
                              THEN appendTensor(tensorArrays, trainableSlice[s],
                                                ttensor).arrays
                              ELSE tensorArrays)

----------------------------------------------------------------------------
\* VarStore.Save.

\* lib.AtSaveMulti on n tensors.  &ctensors[0] panics when there is none.  The
\* name pointers, 8 bytes each, are written into an allocation of 4 * n bytes:
\* the write past its end either ends the process (ub = "fault") or goes
\* unnoticed (ub = "skip", ub = "names").
AtSaveMulti(n, ub) ==
    IF n = 0 THEN "panic" ELSE IF ub = "fault" THEN "fault" ELSE "done"

\* A name that at_save_multi read from memory that holds no name.
GarbageName == <<"?">>

\* The names at_save_multi is given for the names ks.  Its argument is
\* cnamesPtr[0], the address of the variable cname of the first name, so the
\* names after the first are read from the memory behind that variable: the
\* variables of the next names when they happen to lie there (ub = "skip"),
\* anything else otherwise (ub = "names").
SavedNames(ks, ub) ==
    [i \in DOMAIN ks |-> IF ub = "names" /\ i > 1 THEN GarbageName ELSE ks[i]]

\* What an execution of AtSaveMulti makes of its undefined behaviour.
SaveOutcomes == {"fault", "skip", "names"}

\* Save on store s up to and including mutex.Lock().
CallSave(t, s, ub) ==
    /\ Idle(t)
    /\ Lock(t, s)
    /\ mutex' = [mutex EXCEPT ![s] = t]
    /\ Begin(t, [NoFrame EXCEPT !.op = "Save", !.store = s, !.ub = ub], "Save")
    /\ UNCHANGED <<NamedVariables, TrainableVariables, crashed>>
    /\ UNCHANGED <<arrays, paths, trainableSlice>>
    /\ Tensors(heap, data, requiresGrad)

Save(t) == \E s \in Stores, ub \in SaveOutcomes : CallSave(t, s, ub)

\* The named tensors are collected from the map and given to ts.SaveMulti,
\* which writes them or returns an error; then the deferred Unlock.
SaveBody(t) ==
    /\ At(t, "Save")
    /\ LET f == frame[t]
           s == f.store
           nv == NamedVariables[s]
           ks == KeySeq(DOMAIN nv)
           namedTensors == [i \in DOMAIN ks |->
                               [Name |-> ks[i], Val |-> data[heap[nv[ks[i]]]]]]
           written == [i \in DOMAIN ks |->
                          [Name |-> SavedNames(ks, f.ub)[i],
                           Val |-> namedTensors[i].Val]]
       IN /\ IF AtSaveMulti(Len(namedTensors), f.ub) = "done"
             THEN /\ mutex' = [mutex EXCEPT ![s] = NoThread]
                  /\ \E err \in BOOLEAN :
                         Return(t, [NoRet EXCEPT !.op = "Save", !.store = s,
                                                 !.err = err,
                                                 !.file = IF err THEN << >>
                                                          ELSE written,
                                                 !.saved =
                                                     [k \in DOMAIN nv |->
                                                         data[heap[nv[k]]]]])
                  /\ UNCHANGED crashed
             ELSE Die /\ UNCHANGED mutex
          /\ UNCHANGED <<NamedVariables, TrainableVariables>>
          /\ UNCHANGED <<arrays, paths, trainableSlice>>
          /\ Tensors(heap, data, requiresGrad)

----------------------------------------------------------------------------
\* VarStore.Load and VarStore.LoadPartial.  The file is what
\* ts.LoadMultiWithDevice returns: a sequence of named tensors.

Pair(name) == [Name |-> name, Val |-> FileVal]

\* The files: up to MaxFileLen named tensors with different names.
Files ==
    UNION {{f \in [1..n -> FileNames] : \A i, j \in 1..n : i # j => f[i] # f[j]} :
           n \in 1..MaxFileLen}

FileOf(f) == [i \in DOMAIN f |-> Pair(f[i])]

\* The loop of Load from pair i on: [err, data].
RECURSIVE LoadLoop(_, _, _, _, _)
LoadLoop(nv, hp, d, file, i) ==
    IF i > Len(file) THEN [err |-> FALSE, data |-> d]
    ELSE IF file[i].Name \notin DOMAIN nv THEN [err |-> TRUE, data |-> d]
    ELSE LoadLoop(nv, hp, Copy_(hp, d, nv[file[i].Name], file[i].Val), file, i + 1)

\* The loop of LoadPartial from pair i on: [crash, data, missing].  For a name
\* that is not in the map currTs is the zero Tensor and Copy_ is still called
\* on it: at_copy_ through a nil pointer either ends the process (ub = "fault")
\* or changes nothing (ub = "skip").
RECURSIVE LoadPartialLoop(_, _, _, _, _, _, _)
LoadPartialLoop(nv, hp, d, file, i, missing, ub) ==
    IF i > Len(file) THEN [crash |-> FALSE, data |-> d, missing |-> missing]
    ELSE IF file[i].Name \notin DOMAIN nv
    THEN IF ub = "fault"
         THEN [crash |-> TRUE, data |-> d, missing |-> Append(missing, file[i].Name)]
         ELSE LoadPartialLoop(nv, hp, d, file, i + 1, Append(missing, file[i].Name), ub)
    ELSE LoadPartialLoop(nv, hp, Copy_(hp, d, nv[file[i].Name], file[i].Val), file,
                         i + 1, missing, ub)

\* Load of a file on store s up to and including mutex.Lock().  saved is what
\* the variables held when the file was written by Save.
CallLoad(t, s, file, saved) ==
    /\ Idle(t)
    /\ Lock(t, s)
    /\ mutex' = [mutex EXCEPT ![s] = t]
    /\ Begin(t, [NoFrame EXCEPT !.op = "Load", !.store = s, !.file = file,
                                !.saved = saved],
             "Load")
    /\ UNCHANGED <<NamedVariables, TrainableVariables, crashed>>
    /\ UNCHANGED <<arrays, paths, trainableSlice>>
    /\ Tensors(heap, data, requiresGrad)

Load(t) == \E s \in Stores, f \in Files : CallLoad(t, s, FileOf(f), EmptyMap)

\* Load of the file that the last call of t, a Save, has written.
LoadSaved(t, s) ==
    /\ ret[t].op = "Save"
    /\ ~ret[t].err
    /\ CallLoad(t, s, ret[t].file, ret[t].saved)

\* The loop of Load under the mutex, and the deferred Unlock.
LoadBody(t) ==
    /\ At(t, "Load")
    /\ LET f == frame[t]
           s == f.store
           r == LoadLoop(NamedVariables[s], heap, data, f.file, 1)
       IN /\ mutex' = [mutex EXCEPT ![s] = NoThread]
          /\ Return(t, [NoRet EXCEPT !.op = "Load", !.store = s, !.err = r.err])
          /\ UNCHANGED <<NamedVariables, TrainableVariables, crashed>>
          /\ UNCHANGED <<arrays, paths, trainableSlice>>
          /\ Tensors(heap, r.data, requiresGrad)

\* LoadPartial up to and including mutex.Lock().
LoadPartial(t) ==
    /\ Idle(t)
    /\ \E s \in Stores, f \in Files, ub \in {"fault", "skip"} :
        /\ Lock(t, s)
        /\ mutex' = [mutex EXCEPT ![s] = t]
        /\ Begin(t, [NoFrame EXCEPT !.op = "LoadPartial", !.store = s,
                                    !.file = FileOf(f), !.ub = ub], "LoadPartial")
    /\ UNCHANGED <<NamedVariables, TrainableVariables, crashed>>
    /\ UNCHANGED <<arrays, paths, trainableSlice>>
    /\ Tensors(heap, data, requiresGrad)

\* The loop of LoadPartial under the mutex, and the deferred Unlock.
LoadPartialBody(t) ==
    /\ At(t, "LoadPartial")
    /\ LET f == frame[t]
           s == f.store
           r == LoadPartialLoop(NamedVariables[s], heap, data, f.file, 1, << >>, f.ub)
       IN /\ IF r.crash
             THEN Die /\ UNCHANGED mutex
             ELSE /\ mutex' = [mutex EXCEPT ![s] = NoThread]
                  /\ Return(t, [NoRet EXCEPT !.op = "LoadPartial", !.store = s,
                                             !.missing = r.missing])
                  /\ UNCHANGED crashed
          /\ UNCHANGED <<NamedVariables, TrainableVariables>>
          /\ UNCHANGED <<arrays, paths, trainableSlice>>
          /\ Tensors(heap, r.data, requiresGrad)

----------------------------------------------------------------------------
\* VarStore.Freeze and VarStore.Unfreeze.

\* The loop over every tensor there is instead of those of the slice.
SetEvery(tv, hp, g, b, i) == [st \in DOMAIN g |-> b]

\* The loop over TrainableVariables from element i on.
RECURSIVE SetAll(_, _, _, _, _)
SetAll(tv, hp, g, b, i) ==
    IF i > Len(tv) THEN g
    ELSE SetAll(tv, hp, SetRequiresGrad(hp, g, tv[i], b), b, i + 1)

Freeze(t) ==
    /\ Idle(t)
    /\ \E s \in Stores :
        /\ Lock(t, s)
        /\ mutex' = [mutex EXCEPT ![s] = t]
        /\ Begin(t, [NoFrame EXCEPT !.op = "Freeze", !.store = s], "Freeze")
    /\ UNCHANGED <<NamedVariables, TrainableVariables, crashed>>
    /\ UNCHANGED <<arrays, paths, trainableSlice>>
    /\ Tensors(heap, data, requiresGrad)

\* Freeze that also takes the frozen variables out of the slice.
FreezeBodyDropping(t) ==
    /\ At(t, "Freeze")
    /\ LET s == frame[t].store
       IN /\ mutex' = [mutex EXCEPT ![s] = NoThread]
          /\ Return(t, [NoRet EXCEPT !.op = "Freeze", !.store = s])
          /\ TrainableVariables' = [TrainableVariables EXCEPT ![s] = << >>]
          /\ trainableSlice' = [trainableSlice EXCEPT ![s] = Slice(0, 0, 0)]
          /\ UNCHANGED <<NamedVariables, crashed>>
          /\ UNCHANGED <<arrays, paths>>
          /\ Tensors(heap, data,
                     SetAll(TrainableVariables[s], heap, requiresGrad, FALSE, 1))

FreezeBody(t) ==
    /\ At(t, "Freeze")
    /\ LET s == frame[t].store
       IN /\ mutex' = [mutex EXCEPT ![s] = NoThread]
          /\ Return(t, [NoRet EXCEPT !.op = "Freeze", !.store = s])
          /\ UNCHANGED <<NamedVariables, TrainableVariables, crashed>>
          /\ UNCHANGED <<arrays, paths, trainableSlice>>
          /\ Tensors(heap, data,
                     SetAll(TrainableVariables[s], heap, requiresGrad, FALSE, 1))

\* The field after keeps, as history, the call on the same store that the
\* thread returned from just before.
Unfreeze(t) ==
    /\ Idle(t)
    /\ \E s \in Stores :
        /\ Lock(t, s)
        /\ mutex' = [mutex EXCEPT ![s] = t]
        /\ Begin(t, [NoFrame EXCEPT !.op = "Unfreeze", !.store = s,
                                    !.after = IF ret[t].store = s THEN ret[t].op
                                              ELSE "none"],
                 "Unfreeze")
    /\ UNCHANGED <<NamedVariables, TrainableVariables, crashed>>
    /\ UNCHANGED <<arrays, paths, trainableSlice>>
    /\ Tensors(heap, data, requiresGrad)

UnfreezeBody(t) ==
    /\ At(t, "Unfreeze")
    /\ LET s == frame[t].store
       IN /\ mutex' = [mutex EXCEPT ![s] = NoThread]
          /\ Return(t, [NoRet EXCEPT !.op = "Unfreeze", !.store = s,
                                     !.after = frame[t].after])
          /\ UNCHANGED <<NamedVariables, TrainableVariables, crashed>>
          /\ UNCHANGED <<arrays, paths, trainableSlice>>
          /\ Tensors(heap, data,
                     SetAll(TrainableVariables[s], heap, requiresGrad, TRUE, 1))

----------------------------------------------------------------------------
\* VarStore.Copy.

\* The second loop of Copy over the keys ks of the destination.
RECURSIVE CopyLoop(_, _, _, _, _)
CopyLoop(nvDst, nvSrc, hp, d, ks) ==
    IF ks = << >> THEN d
    ELSE CopyLoop(nvDst, nvSrc, hp,
                  Copy_(hp, d, nvDst[Head(ks)], d[hp[nvSrc[Head(ks)]]]), Tail(ks))

\* Copy without the first loop: the names found in the source are copied, and
\* a name that is missing is reported afterwards.
CopyResultUnvalidated(nvDst, nvSrc, hp, d) ==
    LET found == (DOMAIN nvDst) \cap (DOMAIN nvSrc)
    IN [err |-> \E k \in DOMAIN nvDst : k \notin DOMAIN nvSrc,
        data |-> CopyLoop(nvDst, nvSrc, hp, d, KeySeq(found))]

\* The body of Copy: [err, data].  The first loop returns the error before
\* anything is copied.
CopyResult(nvDst, nvSrc, hp, d) ==
    IF \E k \in DOMAIN nvDst : k \notin DOMAIN nvSrc
    THEN [err |-> TRUE, data |-> d]
    ELSE [err |-> FALSE, data |-> CopyLoop(nvDst, nvSrc, hp, d, KeySeq(DOMAIN nvDst))]

\* vs.Vars.mutex.Lock()
Copy(t) ==
    /\ Idle(t)
    /\ \E s \in Stores, src \in Stores :
        /\ Lock(t, s)
        /\ mutex' = [mutex EXCEPT ![s] = t]
        /\ Begin(t, [NoFrame EXCEPT !.op = "Copy", !.store = s, !.src = src],
                 "CopyLockSrc")
    /\ UNCHANGED <<NamedVariables, TrainableVariables, crashed>>
    /\ UNCHANGED <<arrays, paths, trainableSlice>>
    /\ Tensors(heap, data, requiresGrad)

\* src.Vars.mutex.Lock()
CopyLockSrc(t) ==
    /\ At(t, "CopyLockSrc")
    /\ Lock(t, frame[t].src)
    /\ mutex' = [mutex EXCEPT ![frame[t].src] = t]
    /\ pc' = [pc EXCEPT ![t] = "Copy"]
    /\ UNCHANGED <<frame, ret, NamedVariables, TrainableVariables, crashed>>
    /\ UNCHANGED <<arrays, paths, trainableSlice>>
    /\ Tensors(heap, data, requiresGrad)

\* The two loops of Copy under both mutexes, and the deferred Unlocks.
CopyBody(t) ==
    /\ At(t, "Copy")
    /\ LET f == frame[t]
           r == CopyResult(NamedVariables[f.store], NamedVariables[f.src], heap, data)
       IN /\ mutex' = [mutex EXCEPT ![f.store] = NoThread, ![f.src] = NoThread]
          /\ Return(t, [NoRet EXCEPT !.op = "Copy", !.store = f.store, !.err = r.err])
          /\ UNCHANGED <<NamedVariables, TrainableVariables, crashed>>
          /\ UNCHANGED <<arrays, paths, trainableSlice>>
          /\ Tensors(heap, r.data, requiresGrad)

----------------------------------------------------------------------------
\* Path.Get, VarStore.Variables and VarStore.TrainableVariables.

\* Get on a Path with the segments p, up to and including mutex.Lock().
CallGet(t, s, p, name) ==
    /\ Idle(t)
    /\ Lock(t, s)
    /\ mutex' = [mutex EXCEPT ![s] = t]
    /\ Begin(t, [NoFrame EXCEPT !.op = "Get", !.store = s, !.path = p,
                                !.name = name], "Get")
    /\ UNCHANGED <<NamedVariables, TrainableVariables, crashed>>
    /\ UNCHANGED <<arrays, paths, trainableSlice>>
    /\ Tensors(heap, data, requiresGrad)

Get(t) == \E s \in Stores, p \in Paths, name \in VarNames : CallGet(t, s, p, name)

\* Get that looks the name up as the creation methods store it: qualified
\* with the segments of the path.
GetBodyQualified(t) ==
    /\ At(t, "Get")
    /\ LET f == frame[t]
           s == f.store
           nv == NamedVariables[s]
           key == getpath(f.path, f.name)
           ok == key \in DOMAIN nv
           cl == IF ok THEN ShallowClone(heap, nv[key]) ELSE [heap |-> heap, h |-> NilH]
       IN /\ mutex' = [mutex EXCEPT ![s] = NoThread]
          /\ Return(t, [NoRet EXCEPT !.op = "Get", !.store = s, !.key = f.name,
                                     !.path = f.path, !.err = ~ok, !.h = cl.h])
          /\ UNCHANGED <<NamedVariables, TrainableVariables, crashed>>
          /\ UNCHANGED <<arrays, paths, trainableSlice>>
          /\ Tensors(cl.heap, data, requiresGrad)

\* The lookup of the literal name and the clone, under the mutex.
GetBody(t) ==
    /\ At(t, "Get")
    /\ LET f == frame[t]
           s == f.store
           nv == NamedVariables[s]
           ok == f.name \in DOMAIN nv
           cl == IF ok THEN ShallowClone(heap, nv[f.name]) ELSE [heap |-> heap, h |-> NilH]
       IN /\ mutex' = [mutex EXCEPT ![s] = NoThread]
          /\ Return(t, [NoRet EXCEPT !.op = "Get", !.store = s, !.key = f.name,
                                     !.path = f.path, !.err = ~ok, !.h = cl.h])
          /\ UNCHANGED <<NamedVariables, TrainableVariables, crashed>>
          /\ UNCHANGED <<arrays, paths, trainableSlice>>
          /\ Tensors(cl.heap, data, requiresGrad)

\* Shallow clones of the handles hs, in order: [heap, hs].
RECURSIVE CloneAll(_, _, _)
CloneAll(hp, hs, acc) ==
    IF hs = << >> THEN [heap |-> hp, hs |-> acc]
    ELSE LET cl == ShallowClone(hp, Head(hs))
         IN CloneAll(cl.heap, Tail(hs), Append(acc, cl.h))

Variables(t) ==
    /\ Idle(t)
    /\ \E s \in Stores :
        /\ Lock(t, s)
        /\ mutex' = [mutex EXCEPT ![s] = t]
        /\ Begin(t, [NoFrame EXCEPT !.op = "Variables", !.store = s], "Variables")
    /\ UNCHANGED <<NamedVariables, TrainableVariables, crashed>>
    /\ UNCHANGED <<arrays, paths, trainableSlice>>
    /\ Tensors(heap, data, requiresGrad)

\* The map of clones, built under the mutex.
VariablesBody(t) ==
    /\ At(t, "Variables")
    /\ LET s == frame[t].store
           nv == NamedVariables[s]
           ks == KeySeq(DOMAIN nv)
           cl == CloneAll(heap, [i \in DOMAIN ks |-> nv[ks[i]]], << >>)
           retVal == [k \in DOMAIN nv |->
                         cl.hs[CHOOSE i \in DOMAIN ks : ks[i] = k]]
       IN /\ mutex' = [mutex EXCEPT ![s] = NoThread]
          /\ Return(t, [NoRet EXCEPT !.op = "Variables", !.store = s, !.m = retVal])
          /\ UNCHANGED <<NamedVariables, TrainableVariables, crashed>>
          /\ UNCHANGED <<arrays, paths, trainableSlice>>
          /\ Tensors(cl.heap, data, requiresGrad)

CallTrainableVariables(t, s) ==
    /\ Idle(t)
    /\ Lock(t, s)
    /\ mutex' = [mutex EXCEPT ![s] = t]
    /\ Begin(t, [NoFrame EXCEPT !.op = "TrainableVariables", !.store = s],
             "TrainableVariables")
    /\ UNCHANGED <<NamedVariables, TrainableVariables, crashed>>
    /\ UNCHANGED <<arrays, paths, trainableSlice>>
    /\ Tensors(heap, data, requiresGrad)

TrainableVariablesCall(t) == \E s \in Stores : CallTrainableVariables(t, s)

\* retVal starts as the slice of the store and the clones are appended to it.
TrainableVariablesResult(hp, tv) ==
    LET cl == CloneAll(hp, tv, << >>)
    IN [heap |-> cl.heap, hs |-> tv \o cl.hs, clones |-> cl.hs]

\* A TrainableVariables that returned the slice of the store as it is.
TrainableVariablesBodyLive(t) ==
    /\ At(t, "TrainableVariables")
    /\ LET s == frame[t].store
       IN /\ mutex' = [mutex EXCEPT ![s] = NoThread]
          /\ Return(t, [NoRet EXCEPT !.op = "TrainableVariables", !.store = s,
                                     !.hs = Elems(tensorArrays, trainableSlice[s]),
                                     !.slice = trainableSlice[s]])
          /\ UNCHANGED <<NamedVariables, TrainableVariables, crashed>>
          /\ UNCHANGED <<arrays, paths, trainableSlice>>
          /\ Tensors(heap, data, requiresGrad)

\* The appends of the clones go to the slice header copied from the store:
\* into the array of the store while it has room, then into a new array.
TrainableVariablesBody(t) ==
    /\ At(t, "TrainableVariables")
    /\ LET s == frame[t].store
           r == TrainableVariablesResult(heap, TrainableVariables[s])
           retVal == appendAll(tensorArrays, trainableSlice[s], r.clones)
       IN /\ mutex' = [mutex EXCEPT ![s] = NoThread]
          /\ Return(t, [NoRet EXCEPT !.op = "TrainableVariables", !.store = s,
                                     !.hs = Elems(retVal.arrays, retVal.slice),
                                     !.slice = retVal.slice])
          /\ UNCHANGED <<NamedVariables, TrainableVariables, crashed>>
          /\ UNCHANGED <<arrays, paths, trainableSlice>>
          /\ TensorsAndArrays(r.heap, data, requiresGrad, retVal.arrays)

\* What the caller of TrainableVariables does with the slice it got.  It
\* writes the zero Tensor, and Written(t) counts the elements it has written.
Written(t) == Cardinality({i \in DOMAIN ret[t].hs : ret[t].hs[i] = NilH})

\* The slices of the stores are read from the arrays, which the writes of a
\* caller reach when its slice shares one with a store.
CallerWrites(t, arrs, sl) ==
    /\ ret' = [ret EXCEPT ![t] = [@ EXCEPT !.hs = Elems(arrs, sl), !.slice = sl]]
    /\ TrainableVariables' = [s \in Stores |-> Elems(arrs, trainableSlice[s])]
    /\ UNCHANGED <<pc, frame, mutex, NamedVariables, crashed>>
    /\ UNCHANGED <<arrays, paths, trainableSlice>>
    /\ TensorsAndArrays(heap, data, requiresGrad, arrs)

\* retVal = append(retVal, ts.Tensor{}) by the caller, which has written
\* fewer than b elements.
CallerAppend(t, b) ==
    /\ Idle(t)
    /\ ret[t].op = "TrainableVariables"
    /\ Written(t) < b
    /\ LET ap == appendTensor(tensorArrays, ret[t].slice, NilH)
       IN CallerWrites(t, ap.arrays, ap.slice)

\* retVal[i] = ts.Tensor{} by the caller, which has written fewer than b
\* elements.
CallerOverwrite(t, b) ==
    /\ Idle(t)
    /\ ret[t].op = "TrainableVariables"
    /\ Written(t) < b
    /\ \E i \in 1..ret[t].slice.len :
        /\ tensorArrays[ret[t].slice.arr][i] # NilH
        /\ CallerWrites(t, [tensorArrays EXCEPT ![ret[t].slice.arr][i] = NilH],
                        ret[t].slice)

----------------------------------------------------------------------------
\* VarStore.Len and VarStore.IsEmpty.

\* Len up to and including mutex.Lock().
VarStoreLen(t) ==
    /\ Idle(t)
    /\ \E s \in Stores :
        /\ Lock(t, s)
        /\ mutex' = [mutex EXCEPT ![s] = t]
        /\ Begin(t, [NoFrame EXCEPT !.op = "Len", !.store = s], "Len")
    /\ UNCHANGED <<NamedVariables, TrainableVariables, crashed>>
    /\ UNCHANGED <<arrays, paths, trainableSlice>>
    /\ Tensors(heap, data, requiresGrad)

\* len(vs.Vars.NamedVariables) under the mutex, and the deferred Unlock.
LenBody(t) ==
    /\ At(t, "Len")
    /\ LET s == frame[t].store
           retVal == Cardinality(DOMAIN NamedVariables[s])
       IN /\ mutex' = [mutex EXCEPT ![s] = NoThread]
          /\ Return(t, [NoRet EXCEPT !.op = "Len", !.store = s, !.len = retVal])
          /\ UNCHANGED <<NamedVariables, TrainableVariables, crashed>>
          /\ UNCHANGED <<arrays, paths, trainableSlice>>
          /\ Tensors(heap, data, requiresGrad)

\* IsEmpty up to and including mutex.Lock().
IsEmpty(t) ==
    /\ Idle(t)
    /\ \E s \in Stores :
        /\ Lock(t, s)
        /\ mutex' = [mutex EXCEPT ![s] = t]
        /\ Begin(t, [NoFrame EXCEPT !.op = "IsEmpty", !.store = s], "IsEmpty")
    /\ UNCHANGED <<NamedVariables, TrainableVariables, crashed>>
    /\ UNCHANGED <<arrays, paths, trainableSlice>>
    /\ Tensors(heap, data, requiresGrad)

\* IsEmpty that looks at the trainable slice instead of the map.
IsEmptyBodyOfSlice(t) ==
    /\ At(t, "IsEmpty")
    /\ LET s == frame[t].store
           retVal == (Len(TrainableVariables[s]) = 0)
       IN /\ mutex' = [mutex EXCEPT ![s] = NoThread]
          /\ Return(t, [NoRet EXCEPT !.op = "IsEmpty", !.store = s, !.empty = retVal])
          /\ UNCHANGED <<NamedVariables, TrainableVariables, crashed>>
          /\ UNCHANGED <<arrays, paths, trainableSlice>>
          /\ Tensors(heap, data, requiresGrad)

\* len(vs.Vars.NamedVariables) == 0 under the mutex, and the deferred Unlock.
IsEmptyBody(t) ==
    /\ At(t, "IsEmpty")
    /\ LET s == frame[t].store
           retVal == (Cardinality(DOMAIN NamedVariables[s]) = 0)
       IN /\ mutex' = [mutex EXCEPT ![s] = NoThread]
          /\ Return(t, [NoRet EXCEPT !.op = "IsEmpty", !.store = s, !.empty = retVal])
          /\ UNCHANGED <<NamedVariables, TrainableVariables, crashed>>
          /\ UNCHANGED <<arrays, paths, trainableSlice>>
          /\ Tensors(heap, data, requiresGrad)

----------------------------------------------------------------------------
\* Specifications.

\* Two threads: creation, get-or-create and Copy.
Next ==
    \E t \in Threads :
        \/ ZerosNoTrain(t, MaxConcVars)
        \/ NewVar(t, MaxConcVars)
        \/ add(t)
        \/ Entry(t, MaxConcVars)
        \/ OrVar(t)
        \/ getOrAddWithLock(t)
        \/ Copy(t)
        \/ CopyLockSrc(t)
        \/ CopyBody(t)

Spec == Init /\ [][Next]_vars

\* One thread: creation, get-or-create and the accessors.
RegNext ==
    \/ ZerosNoTrain(1, MaxVars)
    \/ NewVar(1, MaxVars)
    \/ add(1)
    \/ Entry(1, MaxVars)
    \/ OrVar(1)
    \/ getOrAddWithLock(1)
    \/ Get(1)
    \/ GetBody(1)
    \/ Variables(1)
    \/ VariablesBody(1)
    \/ TrainableVariablesCall(1)
    \/ TrainableVariablesBody(1)

RegSpec == Init /\ [][RegNext]_vars

\* One thread: creation, Load and LoadPartial.
LoadNext ==
    \/ ZerosNoTrain(1, MaxVars)
    \/ NewVar(1, MaxVars)
    \/ add(1)
    \/ Load(1)
    \/ LoadBody(1)
    \/ LoadPartial(1)
    \/ LoadPartialBody(1)

LoadSpec == Init /\ [][LoadNext]_vars

\* One thread: creation and Copy.
CopyNext ==
    \/ ZerosNoTrain(1, MaxVars)
    \/ OnesNoTrain(1, MaxVars)
    \/ NewVar(1, MaxVars)
    \/ add(1)
    \/ Copy(1)
    \/ CopyLockSrc(1)
    \/ CopyBody(1)

CopySpec == Init /\ [][CopyNext]_vars

\* One thread: creation, Freeze and Unfreeze.
FreezeNext ==
    \/ ZerosNoTrain(1, MaxConcVars)
    \/ NewVar(1, MaxConcVars)
    \/ add(1)
    \/ Entry(1, MaxConcVars)
    \/ OrVar(1)
    \/ getOrAddWithLock(1)
    \/ Freeze(1)
    \/ FreezeBody(1)
    \/ Unfreeze(1)
    \/ UnfreezeBody(1)

FreezeSpec == Init /\ [][FreezeNext]_vars

\* One thread: variables of ones, and get-or-create with zeros.
EntryNext ==
    \/ OnesNoTrain(1, MaxVars)
    \/ add(1)
    \/ Entry(1, MaxVars)
    \/ OrVar(1)
    \/ getOrAddWithLock(1)

EntrySpec == Init /\ [][EntryNext]_vars

\* One thread: Sub and getpath.
PathNext ==
    \/ Sub(1, MaxPaths)
    \/ CallGetpath(1)
    \/ getpathBody(1)

PathSpec == Init /\ [][PathNext]_vars

\* One thread: Sub, creation and get-or-create on strings with and without the
\* separator.
SepNext ==
    \/ Sub(1, MaxConcVars)
    \/ Ones(1, MaxConcVars)
    \/ add(1)
    \/ EntryOrOnes(1, MaxConcVars)
    \/ OrVar(1)
    \/ getOrAddWithLock(1)

SepSpec == Init /\ [][SepNext]_vars

\* One thread: ZerosNoTrain("w") and Zeros("w") on the root path of either
\* store, and every method of the store that works on the variables there are.
StoreNext ==
    \/ \E s \in Stores :
           CallAdd(1, MaxConcVars, "ZerosNoTrain", s, << >>, NameW, ZeroVal, FALSE)
    \/ \E s \in Stores :
           CallAdd(1, MaxConcVars, "Zeros", s, << >>, NameW, ZeroVal, TRUE)
    \/ add(1)
    \/ Save(1)
    \/ SaveBody(1)
    \/ Load(1)
    \/ LoadBody(1)
    \/ LoadPartial(1)
    \/ LoadPartialBody(1)
    \/ Copy(1)
    \/ CopyLockSrc(1)
    \/ CopyBody(1)
    \/ Freeze(1)
    \/ FreezeBody(1)
    \/ Unfreeze(1)
    \/ UnfreezeBody(1)

StoreSpec == Init /\ [][StoreNext]_vars

\* One thread: creation, get-or-create, Len and IsEmpty.
LenNext ==
    \/ ZerosNoTrain(1, MaxVars)
    \/ NewVar(1, MaxVars)
    \/ add(1)
    \/ Entry(1, MaxVars)
    \/ OrVar(1)
    \/ getOrAddWithLock(1)
    \/ VarStoreLen(1)
    \/ LenBody(1)
    \/ IsEmpty(1)
    \/ IsEmptyBody(1)

LenSpec == Init /\ [][LenNext]_vars

\* One thread and one store: Sub, and ZerosNoTrain, OnesNoTrain, Zeros and
\* VarCopy (from a new tensor of ones) on the paths there are.
CreateNext ==
    \/ Sub(1, MaxConcVars)
    \/ \E p \in Paths, name \in VarNames :
           CallAdd(1, MaxConcVars, "ZerosNoTrain", "A", p, name, ZeroVal, FALSE)
    \/ \E p \in Paths, name \in VarNames :
           CallAdd(1, MaxConcVars, "OnesNoTrain", "A", p, name, OneVal, FALSE)
    \/ \E p \in Paths, name \in VarNames :
           CallAdd(1, MaxConcVars, "Zeros", "A", p, name, ZeroVal, TRUE)
    \/ \E p \in Paths, name \in VarNames :
           CallVarCopy(1, MaxConcVars, "A", p, name, "new")
    \/ add(1)
    \/ VarCopyBody(1)

CreateSpec == Init /\ [][CreateNext]_vars

\* One thread: the creation methods without training of Path and of Entry,
\* and OrZeros.
NoTrainNext ==
    \/ ZerosNoTrain(1, MaxConcVars)
    \/ OnesNoTrain(1, MaxConcVars)
    \/ add(1)
    \/ Entry(1, MaxConcVars)
    \/ OrVar(1)
    \/ EntryNoTrain(1, MaxConcVars)
    \/ OrZerosNoTrain(1)
    \/ OrOnesNoTrain(1)
    \/ getOrAddWithLock(1)

NoTrainSpec == Init /\ [][NoTrainNext]_vars

\* One thread: Sub, Zeros("w") on the paths there are in store A, and Get on
\* the paths there are in either store.
GetNext ==
    \/ Sub(1, MaxConcVars)
    \/ \E p \in Paths : CallAdd(1, MaxConcVars, "Zeros", "A", p, NameW, ZeroVal, TRUE)
    \/ add(1)
    \/ \E s \in Stores, p \in Paths, name \in GetNames : CallGet(1, s, p, name)
    \/ GetBody(1)

GetSpec == Init /\ [][GetNext]_vars

\* One thread: variables of zeros, and OrVarCopy from a new tensor of ones or
\* from the tensor the last call returned.
OrVarCopyNext ==
    \/ ZerosNoTrain(1, MaxConcVars)
    \/ add(1)
    \/ EntryOrVarCopy(1, MaxConcVars)
    \/ OrVar(1)
    \/ getOrAddWithLock(1)
    \/ OrVarCopyBody(1)

OrVarCopySpec == Init /\ [][OrVarCopyNext]_vars

\* TrainableVariables on a store in which another thread creates trainable
\* variables, and the caller writing to the slice it got.
TvNext ==
    \/ \E p \in Paths :
           CallAdd(2, MaxVars + 1, "Zeros", "A", p, NameW, ZeroVal, TRUE)
    \/ add(2)
    \/ CallTrainableVariables(1, "A")
    \/ TrainableVariablesBody(1)
    \/ CallerAppend(1, MaxWrites)
    \/ CallerOverwrite(1, MaxWrites)

TvSpec == Init /\ [][TvNext]_vars

\* Save of a store and Load of the file it wrote, by thread 1, with thread 2
\* creating the variables and loading other files.
RoundTripNext ==
    \/ CallAdd(2, MaxConcVars, "Zeros", "A", << >>, NameW, ZeroVal, TRUE)
    \/ CallAdd(2, MaxConcVars, "OnesNoTrain", "A", << >>, NameB, OneVal, FALSE)
    \/ add(2)
    \/ \E ub \in SaveOutcomes : CallSave(1, "A", ub)
    \/ SaveBody(1)
    \/ \E f \in Files : CallLoad(2, "A", FileOf(f), EmptyMap)
    \/ LoadSaved(1, "A")
    \/ LoadBody(1)
    \/ LoadBody(2)

RoundTripSpec == Init /\ [][RoundTripNext]_vars

----------------------------------------------------------------------------
\* Properties.

\* Thread t returns from the method whose body is at label.
Returns(t, label) == pc[t] = label /\ pc'[t] = "idle"

\* The value of the variable that store s holds under key k.
ValueOf(s, k) == data[heap[NamedVariables[s][k]]]

\* The names in a file.
NamesOf(file) == {file[i].Name : i \in DOMAIN file}

\* Thread t's next step reads or writes the registry of store s.
Accesses(t, s) ==
    \/ /\ pc[t] \in {"add", "OrVar", "getOrAddWithLock", "Load", "LoadPartial",
                     "Freeze", "Unfreeze", "Copy", "Get", "Variables",
                     "TrainableVariables"}
       /\ frame[t].store = s
    \/ pc[t] = "Copy" /\ frame[t].src = s

\* C1: the get-or-create calls that returned for one name of one store all
\* returned handles on one storage (one variable was created for the name).
C1_OneVariablePerName ==
    \A t1, t2 \in Threads :
        (/\ ret[t1].op = "OrVar" /\ ret[t2].op = "OrVar"
         /\ ret[t1].store = ret[t2].store
         /\ ret[t1].key = ret[t2].key)
        => heap[ret[t1].h] = heap[ret[t2].h]

\* C2: a thread that is about to read or write a registry holds its mutex,
\* so no two threads are inside one registry at the same time.
C2_AccessUnderMutex ==
    /\ \A t \in Threads, s \in Stores : (~crashed /\ Accesses(t, s)) => mutex[s] = t
    /\ \A s \in Stores : Cardinality({t \in Threads : Accesses(t, s)}) <= 1

\* C3: a creation call leaves every key that was in the map on the handle it
\* had, and the map has one key more.
C3_InsertNeverOverwrites ==
    [][\A t \in Threads :
          Returns(t, "add") =>
              LET s == frame[t].store
                  nv == NamedVariables[s]
              IN /\ \A k \in DOMAIN nv :
                        k \in DOMAIN NamedVariables'[s] /\ NamedVariables'[s][k] = nv[k]
                 /\ Cardinality(DOMAIN NamedVariables'[s]) = Cardinality(DOMAIN nv) + 1
      ]_vars

\* C4: every handle of the trainable slice is a value of the name map.
C4_TrainableInNames ==
    \A s \in Stores : Range(TrainableVariables[s]) \subseteq Range(NamedVariables[s])

\* C5: no handle that a registry holds is a handle that a caller passed in or
\* was returned.
C5_RegistryHandlesPrivate ==
    \A s \in Stores, t \in Threads :
        RegistryHandles(NamedVariables, TrainableVariables, s)
            \cap (RetHandles(ret[t]) \cup {frame[t].newTs}) = {}

C7_CopyNeverDeadlocks ==
    ~ \E D \in (SUBSET Threads) \ {{}} :
        \A t \in D : pc[t] = "CopyLockSrc" /\ mutex[frame[t].src] \in D

\* C8: a Load of a file with a name that is not in the registry returns an
\* error and leaves the value of every variable as it was.
C8_FailedLoadChangesNothing ==
    [][\A t \in Threads :
          (Returns(t, "Load")
           /\ \E n \in NamesOf(frame[t].file) :
                  n \notin DOMAIN NamedVariables[frame[t].store])
          => /\ ret'[t].err
             /\ \A k \in DOMAIN NamedVariables[frame[t].store] :
                    data'[heap'[NamedVariables[frame[t].store][k]]]
                        = ValueOf(frame[t].store, k)
      ]_vars

\* C9: LoadPartial always returns, and its missing list holds exactly the
\* names of the file that are not in the registry.
C9_LoadPartialReportsAbsent ==
    [][\A t \in Threads :
          (pc[t] = "LoadPartial" /\ ~crashed) =>
              /\ ~crashed'
              /\ pc'[t] = "idle" =>
                     Range(ret'[t].missing)
                         = NamesOf(frame[t].file) \ DOMAIN NamedVariables[frame[t].store]
      ]_vars

\* C10: for a file whose names are all in the registry, the missing list of
\* LoadPartial holds exactly the names of the registry that are not in the file.
C10_LoadPartialReportsComplement ==
    [][\A t \in Threads :
          (Returns(t, "LoadPartial")
           /\ NamesOf(frame[t].file) \subseteq DOMAIN NamedVariables[frame[t].store])
          => Range(ret'[t].missing)
                 = DOMAIN NamedVariables[frame[t].store] \ NamesOf(frame[t].file)
      ]_vars

\* The value the file holds under name n.
FileValue(file, n) == file[CHOOSE i \in DOMAIN file : file[i].Name = n].Val

\* C11: LoadPartial returns after copying into the variables whose names are
\* in the file and in the registry and into nothing else: a name of the file
\* that the registry lacks causes no copy (the call does not fault on it), and
\* a variable whose name is not in the file keeps its value.
C11_LoadPartialCopiesMatchedOnly ==
    [][\A t \in Threads :
          (pc[t] = "LoadPartial" /\ ~crashed) =>
              LET s == frame[t].store
                  file == frame[t].file
              IN /\ ~crashed'
                 /\ pc'[t] = "idle"
                 /\ \A k \in DOMAIN NamedVariables[s] :
                        data'[heap'[NamedVariables[s][k]]]
                            = IF k \in NamesOf(file) THEN FileValue(file, k)
                              ELSE ValueOf(s, k)
      ]_vars

\* The handle stored under key k of store s was stored with trainable = true.
IsTrainable(s, k) == NamedVariables[s][k] \in registeredTrainable

\* Gradient tracking of the variable under key k of store s.
GradOf(s, k) == requiresGrad[heap[NamedVariables[s][k]]]

\* C12: Freeze and Unfreeze leave the name map and the trainable slice as they
\* are and never change the gradient flag of a variable stored with
\* trainable = false; when Unfreeze returns just after Freeze on the same
\* store, every variable stored with trainable = true tracks gradients.
C12_FreezeThenUnfreeze ==
    [][\A t \in Threads :
          (pc[t] \in {"Freeze", "Unfreeze"} /\ pc'[t] = "idle") =>
              LET s == frame[t].store
                  nv == NamedVariables[s]
              IN /\ NamedVariables' = NamedVariables
                 /\ TrainableVariables' = TrainableVariables
                 /\ \A k \in DOMAIN nv :
                        ~IsTrainable(s, k) =>
                            requiresGrad'[heap'[nv[k]]] = GradOf(s, k)
                 /\ (pc[t] = "Unfreeze" /\ frame[t].after = "Freeze") =>
                        \A k \in DOMAIN nv :
                            IsTrainable(s, k) => requiresGrad'[heap'[nv[k]]]
      ]_vars

\* C12 witness: Unfreeze returned just after Freeze on a store that holds a
\* variable of the trainable slice, which tracks gradients, and a variable
\* stored with trainable = false, which does not.
C12_Witness ==
    \E t \in Threads :
        /\ ret[t].op = "Unfreeze" /\ ret[t].after = "Freeze"
        /\ \E k1, k2 \in DOMAIN NamedVariables[ret[t].store] :
            /\ NamedVariables[ret[t].store][k1] \in Range(TrainableVariables[ret[t].store])
            /\ IsTrainable(ret[t].store, k1) /\ GradOf(ret[t].store, k1)
            /\ ~IsTrainable(ret[t].store, k2) /\ ~GradOf(ret[t].store, k2)

\* C13: when Freeze returns, no variable of the store that was stored with
\* trainable = true (by a creation method or by a get-or-create) tracks
\* gradients, and the trainable slice is as it was.
C13_FreezeDisablesTrainable ==
    [][\A t \in Threads :
          Returns(t, "Freeze") =>
              LET s == frame[t].store
                  nv == NamedVariables[s]
              IN /\ TrainableVariables' = TrainableVariables
                 /\ \A k \in DOMAIN nv :
                        IsTrainable(s, k) => ~requiresGrad'[heap'[nv[k]]]
      ]_vars

\* C14: when a get-or-create call creates the variable, the variable is stored
\* under the qualified name itself, tracks gradients, and is the new last
\* element of the trainable slice of the store.
C14_OrVarCreatesLikeInsert ==
    [][\A t \in Threads :
          Returns(t, "getOrAddWithLock") =>
              LET s == frame[t].store
                  key == getpath(frame[t].path, frame[t].name)
              IN /\ key \in DOMAIN NamedVariables'[s]
                 /\ DOMAIN NamedVariables'[s] = DOMAIN NamedVariables[s] \cup {key}
                 /\ requiresGrad'[heap'[NamedVariables'[s][key]]]
                 /\ TrainableVariables'[s]
                        = Append(TrainableVariables[s], NamedVariables'[s][key])
      ]_vars

\* Thread t returns from a get-or-create call.
ReturnsOrVar(t) == pc[t] \in {"OrVar", "getOrAddWithLock"} /\ pc'[t] = "idle"

\* C15: with one thread, a get-or-create call on a name that is in the map
\* returns the variable stored under it, leaves its value, the map and the
\* trainable slice as they were; and every get-or-create call returns the
\* variable that the map holds under the name afterwards, so that two calls in
\* a row return the same variable.
C15_OrVarFindsExisting ==
    [][\A t \in Threads :
          ReturnsOrVar(t) =>
              LET s == frame[t].store
                  key == getpath(frame[t].path, frame[t].name)
              IN /\ key \in DOMAIN NamedVariables[s] =>
                        /\ NamedVariables' = NamedVariables
                        /\ TrainableVariables' = TrainableVariables
                        /\ heap'[ret'[t].h] = heap[NamedVariables[s][key]]
                        /\ data'[heap'[ret'[t].h]] = ValueOf(s, key)
                 /\ key \in DOMAIN NamedVariables'[s]
                 /\ heap'[ret'[t].h] = heap'[NamedVariables'[s][key]]
      ]_vars

\* C15 witness: a get-or-create call with zeros returned the variable that a
\* creation method had stored with ones, the only variable of the store.
C15_Witness ==
    \E t \in Threads :
        /\ ret[t].op = "OrVar"
        /\ ret[t].key \in DOMAIN NamedVariables[ret[t].store]
        /\ Cardinality(DOMAIN NamedVariables[ret[t].store]) = 1
        /\ heap[ret[t].h] = heap[NamedVariables[ret[t].store][ret[t].key]]
        /\ data[heap[ret[t].h]] = OneVal
        /\ InitVals = {ZeroVal}

\* The strings parts joined with the separator, from the last one back.
RECURSIVE Joined(_)
Joined(parts) ==
    IF Len(parts) = 1 THEN parts[1]
    ELSE Joined(SubSeq(parts, 1, Len(parts) - 1)) \o <<SEP>> \o parts[Len(parts)]

\* C16: getpath on a Path that Sub returned with the segments s1..sk gives, for
\* a name n without the separator, s1.s2. ... .sk.n, and n for the root path.
C16_QualifyJoinsSegments ==
    [][\A t \in Threads :
          Returns(t, "getpath") =>
              ret'[t].key = Joined(Append(paths[frame[t].scope].made, frame[t].name))
      ]_vars

\* The segments of the i-th path as they are now.
SegmentsOf(i) == Elems(arrays, paths[i].path)

\* C17: Sub returns a path with the segments of its receiver followed by the
\* string given, and leaves the segments of every path there was as they were.
C17_SubLeavesScopesAlone ==
    [][paths' # paths =>
          /\ \E i \in DOMAIN paths, str \in Segments :
                 Elems(arrays', paths'[Len(paths')].path) = Append(SegmentsOf(i), str)
          /\ \A i \in DOMAIN paths :
                 Elems(arrays', paths'[i].path) = SegmentsOf(i)
      ]_vars

\* C18: Sub, a creation method and a get-or-create method given a string with
\* the separator do not terminate the process; a get-or-create call on such a
\* name returns an error and leaves the map and the trainable slice as they are.
C18_SeparatorErrorReturned ==
    [][/\ ~crashed => ~crashed'
       /\ \A t \in Threads :
              (pc[t] = "OrVar" /\ ContainsSEP(frame[t].name)) =>
                  /\ pc'[t] = "idle"
                  /\ ret'[t].err
                  /\ NamedVariables' = NamedVariables
                  /\ TrainableVariables' = TrainableVariables
      ]_vars

\* C19: TrainableVariables returns as many handles as the trainable slice has
\* elements, the i-th one on the storage of the i-th element, and none of them
\* a handle that the registry holds.
C19_TrainableVariablesClones ==
    [][\A t \in Threads :
          Returns(t, "TrainableVariables") =>
              LET s == frame[t].store
                  tv == TrainableVariables[s]
                  hs == ret'[t].hs
              IN /\ Len(hs) = Len(tv)
                 /\ \A i \in DOMAIN tv : heap'[hs[i]] = heap[tv[i]]
                 /\ Range(hs) \cap RegistryHandles(NamedVariables, TrainableVariables, s)
                        = {}
      ]_vars

\* Thread t is inside Save, Load, LoadPartial, Copy, Freeze or Unfreeze.
InStoreMethod(t) ==
    pc[t] \in {"Save", "Load", "LoadPartial", "CopyLockSrc", "Copy", "Freeze",
               "Unfreeze"}

\* C20: no step of Save, Load, LoadPartial, Copy, Freeze or Unfreeze, from the
\* call to the return, with or without an error, changes the keys of a name
\* map or the trainable slice of a store.
C20_StoreMethodsKeepMembership ==
    [][(\E t \in Threads : InStoreMethod(t) \/ InStoreMethod(t)') =>
          \A s \in Stores :
              /\ DOMAIN NamedVariables'[s] = DOMAIN NamedVariables[s]
              /\ TrainableVariables'[s] = TrainableVariables[s]
      ]_vars

\* C20 witness: Load returned an error after it had written the value of the
\* file into a variable of a store that has a trainable variable.
C20_Witness ==
    \E t \in Threads :
        /\ ret[t].op = "Load" /\ ret[t].err
        /\ TrainableVariables[ret[t].store] # << >>
        /\ \E k \in DOMAIN NamedVariables[ret[t].store] :
               ValueOf(ret[t].store, k) = FileVal

\* C21: no step takes a key out of a name map, so the number Len returns, the
\* number of keys at that time, never decreases; and IsEmpty returns true
\* exactly when no variable was ever created in the store.
C21_NamesStayCountGrows ==
    [][/\ \A s \in Stores :
              /\ DOMAIN NamedVariables[s] \subseteq DOMAIN NamedVariables'[s]
              /\ Cardinality(DOMAIN NamedVariables[s])
                     <= Cardinality(DOMAIN NamedVariables'[s])
       /\ \A t \in Threads :
              /\ Returns(t, "Len") =>
                     ret'[t].len = Cardinality(DOMAIN NamedVariables'[frame[t].store])
              /\ Returns(t, "IsEmpty") =>
                     ret'[t].empty = (frame[t].store \notin everCreated)
      ]_vars

\* C21 witness: Len returned 2 for a store in which three variables were
\* created, the third one under a key that was taken, and the other store is
\* still empty.
C21_Witness ==
    \E t \in Threads :
        /\ ret[t].op = "Len" /\ ret[t].len = 2
        /\ DOMAIN NamedVariables[ret[t].store] = {NameW, NameW2}
        /\ Cardinality(RegistryHandles(NamedVariables, TrainableVariables,
                                        ret[t].store)) = 3
        /\ everCreated = {ret[t].store}

\* Thread t leaves the body of add: the variable is stored.
Stores_(t) == pc[t] = "add" /\ pc'[t] # "add"

\* C22: a creation method called with a name whose qualified name is not a key
\* of the map adds that key and no other, on a new handle, and leaves the
\* other keys on their handles.  With trainable = false (ZerosNoTrain,
\* OnesNoTrain) the variable does not track gradients and the trainable slice
\* is as before; otherwise (NewVar, Zeros, Ones, VarCopy) it tracks gradients
\* and is the new last element of the trainable slice.  The copy of VarCopy
\* that follows changes neither the map, the slice nor a gradient flag.
C22_CreationInsertsOnce ==
    [][\A t \in Threads :
          /\ (Stores_(t) /\ getpath(frame[t].path, frame[t].name)
                                \notin DOMAIN NamedVariables[frame[t].store]) =>
                 LET f == frame[t]
                     s == f.store
                     nv == NamedVariables[s]
                     key == getpath(f.path, f.name)
                     nv2 == NamedVariables'[s]
                 IN /\ DOMAIN nv2 = DOMAIN nv \cup {key}
                    /\ \A k \in DOMAIN nv : nv2[k] = nv[k]
                    /\ nv2[key] \notin DOMAIN heap
                    /\ ret'[t].h = nv2[key] /\ ret'[t].key = key
                    /\ \A o \in Stores \ {s} :
                           /\ NamedVariables'[o] = NamedVariables[o]
                           /\ TrainableVariables'[o] = TrainableVariables[o]
                    /\ IF f.op \in {"ZerosNoTrain", "OnesNoTrain"}
                       THEN /\ ~requiresGrad'[heap'[nv2[key]]]
                            /\ TrainableVariables'[s] = TrainableVariables[s]
                       ELSE /\ requiresGrad'[heap'[nv2[key]]]
                            /\ TrainableVariables'[s]
                                   = Append(TrainableVariables[s], nv2[key])
          /\ Returns(t, "VarCopy") =>
                 /\ NamedVariables' = NamedVariables
                 /\ TrainableVariables' = TrainableVariables
                 /\ \A st \in DOMAIN requiresGrad' : requiresGrad'[st] = requiresGrad[st]
      ]_vars

\* C22 witness: in the scope a of one store, w was created without gradient
\* tracking and then w__2 by VarCopy from a tensor of ones: it holds the ones,
\* tracks gradients and is the only element of the trainable slice.
C22_Witness ==
    \E t \in Threads :
        LET s == ret[t].store
        IN /\ ret[t].op = "VarCopy"
           /\ ret[t].key = <<"a", ".">> \o NameW2
           /\ DOMAIN NamedVariables[s] = {<<"a", ".">> \o NameW, <<"a", ".">> \o NameW2}
           /\ ~GradOf(s, <<"a", ".">> \o NameW)
           /\ GradOf(s, ret[t].key)
           /\ ValueOf(s, ret[t].key) = OneVal
           /\ TrainableVariables[s] = <<NamedVariables[s][ret[t].key]>>

\* C23: a variable that OrZerosNoTrain or OrOnesNoTrain creates is stored as
\* OrZeros stores one: under the qualified name, on the tensor built, with
\* gradient tracking enabled and the trainable slice as it was, whichever of
\* the three methods was called; whereas the variable that ZerosNoTrain or
\* OnesNoTrain stores does not track gradients.
C23_OrNoTrainRegistersTrainable ==
    [][\A t \in Threads :
          /\ (Returns(t, "getOrAddWithLock")
              /\ frame[t].op \in {"OrVar", "OrZerosNoTrain", "OrOnesNoTrain"}) =>
                 LET f == frame[t]
                     s == f.store
                     key == getpath(f.path, f.name)
                 IN /\ DOMAIN NamedVariables'[s] = DOMAIN NamedVariables[s] \cup {key}
                    /\ \A k \in DOMAIN NamedVariables[s] \ {key} :
                           NamedVariables'[s][k] = NamedVariables[s][k]
                    /\ NamedVariables'[s][key] = ret'[t].h
                    /\ NamedVariables'[s][key] \in registeredTrainable'
                    /\ requiresGrad'[heap'[NamedVariables'[s][key]]]
                    /\ data'[heap'[NamedVariables'[s][key]]]
                           = (IF f.op = "OrOnesNoTrain" THEN OneVal ELSE ZeroVal)
                    /\ TrainableVariables' = TrainableVariables
          /\ (Returns(t, "add") /\ frame[t].op \in {"ZerosNoTrain", "OnesNoTrain"}) =>
                 /\ ret'[t].h \notin registeredTrainable'
                 /\ ~requiresGrad'[heap'[ret'[t].h]]
                 /\ TrainableVariables' = TrainableVariables
      ]_vars

\* C23 witness: one store holds a variable of OrZerosNoTrain that tracks
\* gradients and a variable of ZerosNoTrain that does not.
C23_Witness ==
    \E t \in Threads :
        LET s == ret[t].store
        IN /\ ret[t].op = "OrZerosNoTrain" /\ ret[t].created
           /\ GradOf(s, ret[t].key) /\ IsTrainable(s, ret[t].key)
           /\ \E k \in DOMAIN NamedVariables[s] :
                  ~GradOf(s, k) /\ ~IsTrainable(s, k) /\ ValueOf(s, k) = ZeroVal

\* The key that the string sep and the number n make of the name path.
Suffixed(path, sep, n) == path \o sep \o Digits(n)

\* A creation method called with a qualified name that is a key of the map,
\* which has n keys, stores the new variable under the name, sep and n, and
\* returns it; the process goes on.
StoresSuffixed(sep) ==
    \A t \in Threads :
        (Stores_(t) /\ getpath(frame[t].path, frame[t].name)
                           \in DOMAIN NamedVariables[frame[t].store]) =>
            LET s == frame[t].store
                nv == NamedVariables[s]
                key == Suffixed(getpath(frame[t].path, frame[t].name), sep,
                                Cardinality(DOMAIN nv))
            IN /\ key \in DOMAIN NamedVariables'[s]
               /\ NamedVariables'[s][key] = ret'[t].h
               /\ NamedVariables'[s][key] \notin DOMAIN heap
               /\ ret'[t].key = key
               /\ ~ret'[t].err /\ ~crashed'

\* C24 as stated: the key is the qualified name, the naming separator SEP and
\* the number of variables there were.
C24_DuplicateKeyWithSEP == [][StoresSuffixed(<<SEP>>)]_vars

\* C24 amended: the key is the qualified name, two underscores and the number
\* of variables there were.
C24_DuplicateKeyWithUnderscores == [][StoresSuffixed(<<"_", "_">>)]_vars

\* C24 witness: in the scope a, w was created twice, the second time under
\* a.w__1, and the call returned the variable with no error.
C24_Witness ==
    \E t \in Threads :
        /\ ret[t].key = <<"a", ".", "w", "_", "_", "1">>
        /\ ret[t].created /\ ~ret[t].err /\ ~crashed
        /\ DOMAIN NamedVariables[ret[t].store] = {<<"a", ".", "w">>, ret[t].key}
        /\ NamedVariables[ret[t].store][ret[t].key] = ret[t].h

\* C25: Get on any path returns, when the map has the name as given as a key,
\* a new handle on the storage of the variable under that key and no error,
\* and otherwise an error and no tensor, whatever the segments of the path
\* are; the map, the trainable slice, the values and the gradient flags are as
\* before.
C25_GetLooksUpLiteralName ==
    [][\A t \in Threads :
          Returns(t, "Get") =>
              LET f == frame[t]
                  nv == NamedVariables[f.store]
              IN /\ NamedVariables' = NamedVariables
                 /\ TrainableVariables' = TrainableVariables
                 /\ \A st \in DOMAIN data :
                        st \in DOMAIN data' /\ data'[st] = data[st]
                                            /\ requiresGrad'[st] = requiresGrad[st]
                 /\ IF f.name \in DOMAIN nv
                    THEN /\ ~ret'[t].err
                         /\ ret'[t].h \notin DOMAIN heap
                         /\ heap'[ret'[t].h] = heap[nv[f.name]]
                    ELSE /\ ret'[t].err
                         /\ ret'[t].h = NilH
      ]_vars

\* C25 witness: the store holds only a.w, created as Zeros("w") in the scope
\* a, and Get("a.w") called on the scope a returned a clone of it.
C25_Witness ==
    \E t \in Threads :
        LET s == ret[t].store
        IN /\ ret[t].op = "Get" /\ ~ret[t].err
           /\ ret[t].path = <<<<"a">>>>
           /\ ret[t].key = <<"a", ".", "w">>
           /\ DOMAIN NamedVariables[s] = {<<"a", ".", "w">>}
           /\ ret[t].h # NamedVariables[s][ret[t].key]
           /\ heap[ret[t].h] = heap[NamedVariables[s][ret[t].key]]

\* Thread t is inside OrVarCopy.
InOrVarCopy(t) ==
    pc[t] \in {"OrVar", "getOrAddWithLock", "OrVarCopy"} /\ frame[t].op = "OrVarCopy"

\* C26: when OrVarCopy returns, the variable under the qualified name holds
\* the values of the tensor given, whether the call created it or found it,
\* and it is the tensor returned; the tensor given is on its storage with its
\* values as before; and no step of the call adds a key other than the
\* qualified name or touches the other store.
C26_OrVarCopyOverwrites ==
    [][\A t \in Threads :
          InOrVarCopy(t) =>
              LET f == frame[t]
                  s == f.store
                  key == getpath(f.path, f.name)
                  h == f.tensor
              IN /\ DOMAIN NamedVariables[s] \subseteq DOMAIN NamedVariables'[s]
                 /\ DOMAIN NamedVariables'[s] \subseteq DOMAIN NamedVariables[s] \cup {key}
                 /\ \A o \in Stores \ {s} : NamedVariables'[o] = NamedVariables[o]
                 /\ ~crashed'
                 /\ Returns(t, "OrVarCopy") =>
                        /\ key \in DOMAIN NamedVariables'[s]
                        /\ ret'[t].h = NamedVariables'[s][key]
                        /\ data'[heap'[NamedVariables'[s][key]]] = data[heap[h]]
                        /\ heap'[h] = heap[h]
                        /\ data'[heap'[h]] = data[heap[h]]
      ]_vars

\* C26 witness: OrVarCopy from a tensor of ones returned a variable that was
\* there, stored by ZerosNoTrain with zeros: it now holds the ones, and the
\* tensor given is another tensor.
C26_Witness ==
    \E t \in Threads :
        LET s == ret[t].store
        IN /\ ret[t].op = "OrVarCopy" /\ ~ret[t].created
           /\ ret[t].h = NamedVariables[s][ret[t].key]
           /\ ~IsTrainable(s, ret[t].key)
           /\ ValueOf(s, ret[t].key) = OneVal
           /\ heap[ret[t].arg] # heap[ret[t].h]
           /\ data[heap[ret[t].arg]] = OneVal

\* C27: a sequence that TrainableVariables returned is independent of the
\* registry.  No step but a call or a write of the caller that holds it changes
\* an element of it, a creation of a variable by another caller included; and
\* an append to it or an overwrite of an element of it leaves the trainable
\* sequence of every store as it was.
CallerStep(t) == pc' = pc /\ ret'[t] # ret[t]

C27_ReturnedSequenceIndependent ==
    [][\A t \in Threads :
          ret[t].op = "TrainableVariables" =>
              /\ ret'[t] = ret[t] =>
                     Elems(tensorArrays', ret[t].slice)
                         = Elems(tensorArrays, ret[t].slice)
              /\ CallerStep(t) =>
                     /\ TrainableVariables' = TrainableVariables
                     /\ \A s \in Stores :
                            Elems(tensorArrays', trainableSlice'[s])
                                = Elems(tensorArrays, trainableSlice[s])]_vars

\* Thread 1 holds the sequence it got when the store had three trainable
\* variables (the first clone was written into the array of the store, which
\* had room for four), it has overwritten the first element, and a fourth
\* variable was created since.
C27_Witness ==
    /\ pc[1] = "idle"
    /\ ret[1].op = "TrainableVariables"
    /\ ret[1].slice.len = 6
    /\ ret[1].hs[1] = NilH
    /\ Len(TrainableVariables["A"]) = 4
    /\ trainableSlice["A"].cap = 4
    /\ \A i \in 2..3 : ret[1].hs[i] = TrainableVariables["A"][i]
    /\ TrainableVariables["A"][1] # NilH

\* C28: Save followed by Load gives the values back.  When Load of a file that
\* Save wrote returns on a store that holds the names it held at the Save, it
\* returns no error, every variable has the value it had at the Save, and the
\* gradient flags and the trainable sequence are as before the Load.
C28_SaveLoadRoundTrips ==
    [][\A t \in Threads :
          LET s == frame[t].store
              nv == NamedVariables[s]
          IN (Returns(t, "Load")
              /\ frame[t].saved # EmptyMap
              /\ DOMAIN frame[t].saved = DOMAIN nv)
             => /\ ~ret'[t].err
                /\ \A k \in DOMAIN nv : data'[heap'[nv[k]]] = frame[t].saved[k]
                /\ \A k \in DOMAIN nv :
                       requiresGrad'[heap'[nv[k]]] = requiresGrad[heap[nv[k]]]
                /\ TrainableVariables' = TrainableVariables
                /\ NamedVariables' = NamedVariables
      ]_vars
====
